---- MODULE Spec2Model ----
(***************************************************************************)
(* TestRail -> Jira CSV converter: the transformation engine               *)
(* (src/src/transformer.py), the validator (src/src/validator.py) and the  *)
(* batch command (src/cli.py), as a state machine.                         *)
(*                                                                         *)
(* A pandas DataFrame is a record [columns, index, data]: the column       *)
(* labels in order, the number of rows, and one sequence of cells per      *)
(* column.  A cell is a string; NaN is the missing marker.  A Python dict  *)
(* is an insertion-ordered sequence of <<key, value>> pairs.  A Python     *)
(* list that is shared by reference (self.errors, self.warnings) lives in  *)
(* heap and is named by its index there.                                   *)
(***************************************************************************)
EXTENDS Integers, Sequences, FiniteSets, TLC

VARIABLES
    config,        \* self.config of the engine / validator (read-only after construction)
    heap,          \* the Python lists allocated so far: heap[r] is the list with reference r
    selfErrors,    \* CSVTransformer.errors   (a reference into heap)
    selfWarnings,  \* CSVTransformer.warnings (a reference into heap)
    pc,            \* position inside CSVTransformer.transform
    preview,       \* the preview argument of the running transform call
    df,            \* the DataFrame read from the input file
    result_df,     \* the DataFrame built by _apply_transformations
    raised,        \* the exception that left the try block ("" when none)
    steps,         \* the stages of the running call completed so far, in order
    writes,        \* number of to_csv calls made by the running call
    outfile,       \* what the running call left in its output file
    result,        \* the dict returned by the last finished transform call
    batch,         \* command_batch: its files, loop position, counters and exit code
    valErrors,     \* DataValidator.errors   (a reference into heap)
    valWarnings,   \* DataValidator.warnings (a reference into heap)
    vdf,           \* the DataFrame handed to the validator
    history,       \* the results returned so far, each with the value it had when returned
    scenario,      \* which entry point drives the run: "transform", "batch", "validator",
                   \* "cli" or "functions"
    cli,           \* the command line run: its arguments, position and exit code
    call           \* one call of a function of the library: its arguments and its value

vars == <<config, heap, selfErrors, selfWarnings, pc, preview, df, result_df, raised,
          steps, writes, outfile, result, batch, valErrors, valWarnings, vdf, history,
          scenario, cli, call>>

-----------------------------------------------------------------------------
(* Bounds of the model *)

MaxRows == 2
MaxFields == 2
MaxFiles == 2
MaxCalls == 2
MaxMessages == 2

-----------------------------------------------------------------------------
(* Cells *)

NaN == "<NaN>"
ConfigDict == "<dict>"

isna(v) == v = NaN

\* str(value) / Series.astype(str): the missing marker prints as "nan"
StrOf(v) == IF v = NaN THEN "nan" ELSE v

\* str.lower() on the strings the model uses
Lower(s) ==
    CASE s = "HIGH" -> "high"
      [] s = "High" -> "high"
      [] s = "hIgH" -> "high"
      [] s = "LOW" -> "low"
      [] s = "Low" -> "low"
      [] s = "MEDIUM" -> "medium"
      [] s = "Medium" -> "medium"
      [] s = "CRITICAL" -> "critical"
      [] s = "Critical" -> "critical"
      [] s = "Urgent" -> "urgent"
      [] s = "Highest" -> "highest"
      [] s = "Login" -> "login"
      [] s = "UI > Login" -> "ui > login"
      [] s = "UI" -> "ui"
      [] OTHER -> s

-----------------------------------------------------------------------------
(* Python dicts (insertion ordered) and lists *)

Keys(d) == { d[i][1] : i \in DOMAIN d }
Has(d, k) == k \in Keys(d)
Get(d, k) == d[CHOOSE i \in DOMAIN d : d[i][1] = k][2]
Values(d) == [i \in DOMAIN d |-> d[i][2]]

InList(x, s) == \E i \in DOMAIN s : s[i] = x

RECURSIVE Filter(_, _)
\* [x for x in s if x \in keep]
Filter(s, keep) ==
    IF s = <<>> THEN <<>>
    ELSE (IF Head(s) \in keep THEN <<Head(s)>> ELSE <<>>) \o Filter(Tail(s), keep)

Count(s, P(_)) == Cardinality({ i \in DOMAIN s : P(s[i]) })

Msg(kind, name, count, names) ==
    [kind |-> kind, name |-> name, count |-> count, names |-> names]

-----------------------------------------------------------------------------
(* DataFrames *)

EmptyFrame == [columns |-> <<>>, index |-> 0, data |-> <<>>]

\* DataFrame.empty: any axis of length 0
IsEmptyFrame(f) == Len(f.columns) = 0 \/ f.index = 0

HasColumn(f, c) == InList(c, f.columns)

ColumnPos(f, c) == CHOOSE i \in DOMAIN f.columns : f.columns[i] = c

\* f[c] for a label that names one column
Column(f, c) == f.data[ColumnPos(f, c)]

Broadcast(v, n) == [r \in 1..n |-> v]

\* PutColumn with a new label put in front of the others instead of after them
PutColumnFront(f, c, cells) ==
    IF HasColumn(f, c)
    THEN [f EXCEPT !.data[ColumnPos(f, c)] = cells]
    ELSE [f EXCEPT !.columns = <<c>> \o @, !.data = <<cells>> \o @]

\* f[c] = <cells>, the index already fitting: replace the column in place
\* when the label exists, append it otherwise
PutColumn(f, c, cells) ==
    IF HasColumn(f, c)
    THEN [f EXCEPT !.data[ColumnPos(f, c)] = cells]
    ELSE [f EXCEPT !.columns = Append(@, c), !.data = Append(@, cells)]

\* f[c] = scalar: the scalar is broadcast over the frame's index as it is now
\* (no rows while the frame has no index yet)
SetScalar(f, c, v) == PutColumn(f, c, Broadcast(v, f.index))

\* DataFrame._ensure_valid_index: a frame without rows takes the index of the
\* first non-empty Series assigned to it; the columns it already has are
\* reindexed onto it and filled with NaN
EnsureValidIndex(f, cells) ==
    IF f.index = 0 /\ Len(cells) > 0
    THEN [f EXCEPT !.index = Len(cells),
                   !.data = [i \in DOMAIN f.data |-> Broadcast(NaN, Len(cells))]]
    ELSE f

\* f[c] = Series
SetSeries(f, c, cells) == PutColumn(EnsureValidIndex(f, cells), c, cells)

-----------------------------------------------------------------------------
(* Named transformation functions of the engine *)

Raise == "<raise>"

\* section_str.split(" > ")[0] on the strings the model uses
FirstSegment(s) ==
    CASE s = "UI > Login" -> "UI"
      [] s = "UI > Login > Button" -> "UI"
      [] s = "Login > UI" -> "Login"
      [] s = "UI > UI" -> "UI"
      [] s = " > UI" -> ""
      [] s = "UI > " -> "UI"
      [] OTHER -> s

\* " > " in section_str
HasSeparator(s) ==
    s \in {"UI > Login", "UI > Login > Button", "Login > UI", "UI > UI", " > UI", "UI > "}

\* "Section" in row, for a row that is one cell's string
ContainsSection(s) == s \in {"Section", "Section A"}

\* priority_mapping looking the text up as it is spelled (no .lower())
priority_mapping_cased(priority) ==
    IF isna(priority) THEN "Medium"
    ELSE LET priority_str == StrOf(priority)
         IN  CASE priority_str = "1" -> "Low"
               [] priority_str = "2" -> "Medium"
               [] priority_str = "3" -> "High"
               [] priority_str = "4" -> "Highest"
               [] priority_str = "low" -> "Low"
               [] priority_str = "medium" -> "Medium"
               [] priority_str = "high" -> "High"
               [] priority_str = "critical" -> "Highest"
               [] OTHER -> "Medium"

priority_mapping(priority) ==
    IF isna(priority) THEN "Medium"
    ELSE LET priority_str == Lower(StrOf(priority))
         IN  CASE priority_str = "1" -> "Low"
               [] priority_str = "2" -> "Medium"
               [] priority_str = "3" -> "High"
               [] priority_str = "4" -> "Highest"
               [] priority_str = "low" -> "Low"
               [] priority_str = "medium" -> "Medium"
               [] priority_str = "high" -> "High"
               [] priority_str = "critical" -> "Highest"
               [] OTHER -> "Medium"

\* extract_component without the test for a missing value
extract_component_unguarded(section) ==
    IF HasSeparator(StrOf(section)) THEN FirstSegment(StrOf(section))
    ELSE StrOf(section)

extract_component(section) ==
    IF isna(section) THEN ""
    ELSE IF HasSeparator(StrOf(section)) THEN FirstSegment(StrOf(section))
    ELSE StrOf(section)

\* Series.apply hands generate_labels one cell, not a row: `"Section" in row`
\* is a TypeError on NaN (a float), a substring test on a string, and
\* row["Section"] on a string is a TypeError
generate_labels(row) ==
    IF isna(row) THEN Raise
    ELSE IF ContainsSection(row) THEN Raise
    ELSE "manual-test"

\* self._load_config(cell): Path(NaN) is a TypeError; any string yields a dict
load_config_attr(cell) == IF isna(cell) THEN Raise ELSE ConfigDict

\* The attributes of the engine object that getattr(self, name) can resolve,
\* among the identifiers the model's configurations use
EngineAttributes == {"priority_mapping", "extract_component", "generate_labels", "_load_config"}

\* The engine's vocabulary of named transformation functions
TransformationVocabulary == {"priority_mapping", "extract_component", "generate_labels"}

HasAttr(name) == name \in EngineAttributes

\* getattr(self, name)(cell)
CallAttr(name, cell) ==
    CASE name = "priority_mapping" -> priority_mapping(cell)
      [] name = "extract_component" -> extract_component(cell)
      [] name = "generate_labels" -> generate_labels(cell)
      [] name = "_load_config" -> load_config_attr(cell)

\* Series.apply(func): func on every cell, in order
SeriesApply(name, cells) == [r \in DOMAIN cells |-> CallAttr(name, cells[r])]

-----------------------------------------------------------------------------
(* CSVTransformer._apply_transformations *)

\* One pass of the loop body for output field jf.  acc holds the frame built
\* so far, the warnings appended so far and the exception raised ("" if none).
ProjectField(cfg, input, acc, jf) ==
    IF Has(cfg.static_values, jf)
    THEN [acc EXCEPT !.frame = SetScalar(@, jf, Get(cfg.static_values, jf))]
    ELSE IF Has(cfg.column_mappings, jf)
    THEN LET testrail_field == Get(cfg.column_mappings, jf)
         IN  IF HasColumn(input, testrail_field)
             THEN LET copied == SetSeries(acc.frame, jf, Column(input, testrail_field))
                  IN  IF Has(cfg.transformations, jf)
                      THEN LET transform_func == Get(cfg.transformations, jf)
                               cells == SeriesApply(transform_func, Column(copied, jf))
                           IN  IF ~HasAttr(transform_func)
                               THEN [acc EXCEPT !.frame = copied, !.raised = "AttributeError"]
                               ELSE IF InList(Raise, cells)
                               THEN [acc EXCEPT !.frame = copied, !.raised = "TypeError"]
                               ELSE [acc EXCEPT !.frame = SetSeries(copied, jf, cells)]
                      ELSE [acc EXCEPT !.frame = copied]
             ELSE [acc EXCEPT
                     !.warnings = Append(@, Msg("Source column not found", testrail_field, 0, <<jf>>)),
                     !.frame = SetScalar(@, jf, "")]
    ELSE [acc EXCEPT !.frame = SetScalar(@, jf, "")]

RECURSIVE ProjectFrom(_, _, _, _)
\* the loop over jira_fields from position i on; it stops at the first exception
ProjectFrom(cfg, input, acc, i) ==
    IF i > Len(cfg.jira_fields) \/ acc.raised # "" THEN acc
    ELSE ProjectFrom(cfg, input, ProjectField(cfg, input, acc, cfg.jira_fields[i]), i + 1)

\* apply_transformations with the exception of a failed lookup swallowed
apply_transformations_swallow(cfg, input) ==
    [ProjectFrom(cfg, input, [frame |-> EmptyFrame, warnings |-> <<>>, raised |-> ""], 1)
       EXCEPT !.raised = ""]

\* [frame, warnings, raised] of one _apply_transformations call
apply_transformations(cfg, input) ==
    ProjectFrom(cfg, input, [frame |-> EmptyFrame, warnings |-> <<>>, raised |-> ""], 1)

-----------------------------------------------------------------------------
(* CSVTransformer._validate_input and _validate_output *)

RECURSIVE EmptyRequiredWarnings(_, _, _)
\* the loop over column_mappings.items() of _validate_input, from position i on
EmptyRequiredWarnings(cfg, input, i) ==
    IF i > Len(cfg.column_mappings) THEN <<>>
    ELSE LET jira_field == cfg.column_mappings[i][1]
             testrail_field == cfg.column_mappings[i][2]
             empty_count == IF HasColumn(input, testrail_field)
                            THEN Count(Column(input, testrail_field), isna)
                            ELSE 0
         IN  (IF InList(jira_field, cfg.required_fields)
                 /\ HasColumn(input, testrail_field) /\ empty_count > 0
              THEN << Msg("rows have empty", testrail_field, empty_count, <<>>) >>
              ELSE <<>>)
             \o EmptyRequiredWarnings(cfg, input, i + 1)

\* [raised, warnings] of one _validate_input call
validate_input(cfg, input) ==
    IF IsEmptyFrame(input)
    THEN [raised |-> "ValueError: Input CSV file is empty", warnings |-> <<>>]
    ELSE LET testrail_columns == Values(cfg.column_mappings)
             missing_columns == Filter(testrail_columns,
                                       {testrail_columns[i] : i \in
                                          {j \in DOMAIN testrail_columns :
                                             ~HasColumn(input, testrail_columns[j])}})
         IN  [raised |-> "",
              warnings |->
                (IF missing_columns # <<>>
                 THEN << Msg("Missing expected columns", "", 0, missing_columns) >>
                 ELSE <<>>)
                \o EmptyRequiredWarnings(cfg, input, 1)]

\* isna().sum() + (== "").sum() of one column, as _validate_output counts it
OutputEmptyCount(cells) == Count(cells, isna) + Count(cells, LAMBDA v : v = "")

RECURSIVE OutputErrorsFrom(_, _, _)
\* the loop over required_fields of _validate_output, from position i on
OutputErrorsFrom(cfg, out, i) ==
    IF i > Len(cfg.required_fields) THEN <<>>
    ELSE LET field == cfg.required_fields[i]
         IN  (IF HasColumn(out, field) /\ OutputEmptyCount(Column(out, field)) > 0
              THEN << Msg("rows missing required field", field,
                          OutputEmptyCount(Column(out, field)), <<>>) >>
              ELSE <<>>)
             \o OutputErrorsFrom(cfg, out, i + 1)

\* the errors one _validate_output call appends
validate_output(cfg, out) == OutputErrorsFrom(cfg, out, 1)

-----------------------------------------------------------------------------
(* What the validator's regular expressions and parsers answer, on the      *)
(* strings the model uses                                                   *)

\* len(str(cell))
StrLen(s) ==
    CASE s = "" -> 0
      [] s = "nan" -> 3
      [] s = "Login" -> 5
      [] s = "Logout" -> 6
      [] s = "UI > Login" -> 10
      [] s = "UI" -> 2
      [] s = "Test" -> 4
      [] s = "Bug" -> 3
      [] s = "PROJ" -> 4
      [] s = "proj" -> 4

\* re.match(r'^[A-Z][A-Z0-9_]*$', key)
MatchesProjectKey(s) == s \in {"PROJ", "UI"}

\* str.contains(r'[^\w\s\-.,;:()!?]')
HasSpecialCharacter(s) == s \in {"UI > Login", "a@b.co", "13/45/2024"}

\* str.match of the e-mail pattern
IsEmail(s) == s \in {"a@b.co"}

\* datetime.strptime succeeds under one of the four accepted layouts
ParsesAsDate(s) == s \in {"2024-01-31", "01/31/2024", "2024-01-31 10:00:00"}

\* 'email' in column.lower(), and the like
NameHasEmail(c) == c \in {"Email", "email", "Reporter Email"}
NameHasDateWord(c) == c \in {"Created", "Updated", "Due Date", "created"}
NameHasPriority(c) == c \in {"Priority", "priority"}

-----------------------------------------------------------------------------
(* DataValidator *)

NoOutcome == [errors |-> <<>>, warnings |-> <<>>, raised |-> ""]

\* two passes of the validator, one after the other; an exception ends it
Then(a, b) ==
    IF a.raised # "" THEN a
    ELSE [errors |-> a.errors \o b.errors, warnings |-> a.warnings \o b.warnings,
          raised |-> b.raised]

\* the label names more than one column of the frame
IsDuplicated(f, c) == Cardinality({ i \in DOMAIN f.columns : f.columns[i] = c }) > 1

\* dict.get(key, default)
GetOr(d, k, default) == IF Has(d, k) THEN Get(d, k) ELSE default

\* Series.dropna()
dropna(cells) == SelectSeq(cells, LAMBDA v : ~isna(v))

RECURSIVE Unique(_)
\* Series.unique(): first occurrences, in order
Unique(cells) ==
    IF cells = <<>> THEN <<>>
    ELSE LET rest == Unique(SubSeq(cells, 1, Len(cells) - 1))
             last == cells[Len(cells)]
         IN  IF InList(last, rest) THEN rest ELSE Append(rest, last)

\* Series.head(n)
Head_(cells, n) == SubSeq(cells, 1, IF Len(cells) < n THEN Len(cells) ELSE n)

\* _validate_structure
validate_structure(f) ==
    IF IsEmptyFrame(f)
    THEN [NoOutcome EXCEPT !.errors = << Msg("DataFrame is empty", "", 0, <<>>) >>]
    ELSE IF Len(f.columns) = 0
    THEN [NoOutcome EXCEPT !.errors = << Msg("DataFrame has no columns", "", 0, <<>>) >>]
    ELSE LET duplicates == SelectSeq(f.columns, LAMBDA c : IsDuplicated(f, c))
             dup_errors == IF duplicates # <<>>
                           THEN << Msg("Duplicate columns found", "", 0, duplicates) >>
                           ELSE <<>>
             empty_cols == SelectSeq(f.columns,
                                     LAMBDA c : \A r \in 1..f.index : isna(Column(f, c)[r]))
         IN  IF duplicates # <<>>
             \* df[col] is a frame for a repeated label: `if df[col].isna().all()`
             \* has no truth value
             THEN [errors |-> dup_errors, warnings |-> <<>>, raised |-> "ValueError"]
             ELSE [errors |-> dup_errors,
                   warnings |-> IF empty_cols # <<>>
                                THEN << Msg("Completely empty columns", "", 0, empty_cols) >>
                                ELSE <<>>,
                   raised |-> ""]

RECURSIVE FirstBadDate(_)
\* the loop of _validate_date_format over the sampled values: the first value
\* that parses under no layout and is not nan / none / empty, if any
FirstBadDate(values) ==
    IF values = <<>> THEN <<>>
    ELSE IF ~ParsesAsDate(Head(values)) /\ Lower(Head(values)) \notin {"nan", "none", ""}
         THEN << Head(values) >>
         ELSE FirstBadDate(Tail(values))

\* _validate_date_format
validate_date_format(data, column) ==
    LET bad == FirstBadDate(Head_([i \in DOMAIN data |-> StrOf(data[i])], 10))
    IN  IF bad # <<>>
        THEN << Msg("Unrecognized date format", column, 0, bad) >>
        ELSE <<>>

\* _validate_priority_values
validate_priority_values(cfg, data, column) ==
    LET allowed_priorities == GetOr(cfg.validation_rules, "allowed_priorities", <<>>)
        invalid_priorities == SelectSeq(data, LAMBDA v : ~InList(StrOf(v), allowed_priorities))
    IN  IF allowed_priorities = <<>> THEN <<>>
        ELSE IF invalid_priorities # <<>>
        THEN << Msg("Invalid priority values", column, 0, Head_(Unique(invalid_priorities), 5)) >>
        ELSE <<>>

\* _validate_column_format: the warnings for one column
validate_column_format(cfg, f, column) ==
    LET col_data == dropna(Column(f, column))
        invalid_emails == SelectSeq(col_data, LAMBDA v : ~IsEmail(StrOf(v)))
    IN  IF col_data = <<>> THEN <<>>
        ELSE (IF NameHasEmail(column) /\ invalid_emails # <<>>
              THEN << Msg("Invalid email formats", column, Len(invalid_emails), <<>>) >>
              ELSE <<>>)
             \o (IF NameHasDateWord(column) THEN validate_date_format(col_data, column) ELSE <<>>)
             \o (IF NameHasPriority(column)
                 THEN validate_priority_values(cfg, col_data, column) ELSE <<>>)

RECURSIVE ColumnFormatsFrom(_, _, _)
ColumnFormatsFrom(cfg, f, i) ==
    IF i > Len(f.columns) THEN <<>>
    ELSE validate_column_format(cfg, f, f.columns[i]) \o ColumnFormatsFrom(cfg, f, i + 1)

\* _validate_field_content
validate_field_content(cfg, f) ==
    LET expected_cols == Values(cfg.column_mappings)
        missing_cols == SelectSeq(expected_cols, LAMBDA c : ~HasColumn(f, c))
    IN  [NoOutcome EXCEPT
           !.warnings = (IF missing_cols # <<>>
                         THEN << Msg("Expected columns not found", "", 0, missing_cols) >>
                         ELSE <<>>)
                        \o ColumnFormatsFrom(cfg, f, 1)]

LargeDataset == 10000

\* Series.duplicated().sum(): the cells equal to an earlier cell (NaN included)
DuplicatedCount(cells) ==
    Cardinality({ i \in DOMAIN cells : \E j \in 1..(i - 1) : cells[j] = cells[i] })

\* _validate_business_rules
validate_business_rules(f) ==
    [NoOutcome EXCEPT
       !.warnings = (IF f.index > LargeDataset
                     THEN << Msg("Large dataset", "", f.index, <<>>) >>
                     ELSE <<>>)
                    \o (IF HasColumn(f, "Title") /\ DuplicatedCount(Column(f, "Title")) > 0
                        THEN << Msg("duplicate titles found", "",
                                    DuplicatedCount(Column(f, "Title")), <<>>) >>
                        ELSE <<>>)]

\* EmptyCount without the empty strings
EmptyCountNaNOnly(cells) == Count(cells, isna)

\* isna().sum() + (== "").sum() of one column
EmptyCount(cells) == Count(cells, isna) + Count(cells, LAMBDA v : v = "")

RECURSIVE RequiredFieldsFrom(_, _, _)
\* the loop of _validate_required_fields, from position i of required_fields on
RequiredFieldsFrom(cfg, f, i) ==
    IF i > Len(cfg.required_fields) THEN <<>>
    ELSE IF HasColumn(f, cfg.required_fields[i]) /\ IsDuplicated(f, cfg.required_fields[i])
    THEN <<>>
    ELSE LET field == cfg.required_fields[i]
         IN  (IF ~HasColumn(f, field)
              THEN << Msg("Required field missing", field, 0, <<>>) >>
              ELSE IF EmptyCount(Column(f, field)) > 0
              THEN << Msg("Required field has empty values", field,
                          EmptyCount(Column(f, field)), <<>>) >>
              ELSE <<>>)
             \o RequiredFieldsFrom(cfg, f, i + 1)

\* _validate_required_fields.  For a required label that names several columns
\* df[field] is a frame and `if empty_count > 0` has no truth value: the loop
\* ends there with a ValueError
validate_required_fields(cfg, f) ==
    [NoOutcome EXCEPT
       !.errors = RequiredFieldsFrom(cfg, f, 1),
       !.raised = IF \E i \in DOMAIN cfg.required_fields :
                       HasColumn(f, cfg.required_fields[i])
                       /\ IsDuplicated(f, cfg.required_fields[i])
                  THEN "ValueError" ELSE ""]

DefaultMaxSummaryLength == 255
DefaultMaxDescriptionLength == 32767

\* number of cells of column c whose text is longer than max_length
TooLong(f, c, max_length) == Count(Column(f, c), LAMBDA v : StrLen(StrOf(v)) > max_length)

\* _validate_jira_compliance
validate_jira_compliance(cfg, f) ==
    LET validation_rules == cfg.validation_rules
        max_summary == GetOr(validation_rules, "max_summary_length", DefaultMaxSummaryLength)
        max_description == GetOr(validation_rules, "max_description_length",
                                 DefaultMaxDescriptionLength)
        allowed_types == GetOr(validation_rules, "required_issue_types", <<>>)
        project_keys == IF HasColumn(f, "Project Key")
                        THEN Unique(dropna(Column(f, "Project Key"))) ELSE <<>>
        bad_keys == SelectSeq(project_keys, LAMBDA k : ~MatchesProjectKey(StrOf(k)))
    IN  [NoOutcome EXCEPT
           !.errors =
              (IF HasColumn(f, "Summary") /\ TooLong(f, "Summary", max_summary) > 0
               THEN << Msg("summaries exceed characters", "Summary",
                           TooLong(f, "Summary", max_summary), <<>>) >>
               ELSE <<>>)
              \o (IF HasColumn(f, "Description")
                     /\ TooLong(f, "Description", max_description) > 0
                  THEN << Msg("descriptions exceed characters", "Description",
                              TooLong(f, "Description", max_description), <<>>) >>
                  ELSE <<>>)
              \o (IF HasColumn(f, "Issue Type") /\ allowed_types # <<>>
                     /\ \E r \in 1..f.index : ~InList(Column(f, "Issue Type")[r], allowed_types)
                  THEN << Msg("Invalid Issue Types found", "Issue Type", 0, allowed_types) >>
                  ELSE <<>>)
              \o [i \in DOMAIN bad_keys |->
                    Msg("Invalid Project Key format", "Project Key", 0, << bad_keys[i] >>)]]

\* df.isnull().all(axis=1).sum()
EmptyRows(f) ==
    Cardinality({ r \in 1..f.index : \A c \in DOMAIN f.columns : isna(f.data[c][r]) })

RECURSIVE MostlyMissingFrom(_, _)
\* the loop over df.columns of _validate_data_quality, from position i on;
\* the percentage is kept in tenths
MostlyMissingFrom(f, i) ==
    IF i > Len(f.columns) THEN <<>>
    ELSE IF IsDuplicated(f, f.columns[i]) THEN <<>>
    ELSE LET missing == Count(f.data[i], isna)
         IN  (IF f.index > 0 /\ 2 * missing > f.index
              THEN << Msg("Column is mostly empty", f.columns[i],
                          (2000 * missing + f.index) \div (2 * f.index), <<>>) >>
              ELSE <<>>)
             \o MostlyMissingFrom(f, i + 1)

TextColumns == <<"Summary", "Description", "Component">>

RECURSIVE SpecialCharactersFrom(_, _)
SpecialCharactersFrom(f, i) ==
    IF i > Len(TextColumns) THEN <<>>
    ELSE LET col == TextColumns[i]
             count == IF HasColumn(f, col)
                      THEN Count(Column(f, col), LAMBDA v : HasSpecialCharacter(StrOf(v)))
                      ELSE 0
         IN  (IF count > 0
              THEN << Msg("entries contain special characters", col, count, <<>>) >>
              ELSE <<>>)
             \o SpecialCharactersFrom(f, i + 1)

\* _validate_data_quality.  For a label that names several columns
\* missing_percent is a Series and `if missing_percent > 50` has no truth
\* value: the loop over df.columns ends there with a ValueError
validate_data_quality(f) ==
    LET duplicated == \E i \in DOMAIN f.columns : IsDuplicated(f, f.columns[i])
    IN  [NoOutcome EXCEPT
           !.warnings = (IF EmptyRows(f) > 0
                         THEN << Msg("completely empty rows found", "", EmptyRows(f), <<>>) >>
                         ELSE <<>>)
                        \o MostlyMissingFrom(f, 1)
                        \o (IF duplicated THEN <<>> ELSE SpecialCharactersFrom(f, 1)),
           !.raised = IF duplicated THEN "ValueError" ELSE ""]

\* what validate_input_data appends to its two lists, and whether it raises
validate_input_data(cfg, f) ==
    Then(Then(validate_structure(f), validate_field_content(cfg, f)),
         validate_business_rules(f))

\* what validate_output_data appends to its two lists, and whether it raises
\* (the Jira columns Summary, Description, Issue Type and Project Key are
\* never repeated in the frames of the model)
validate_output_data(cfg, f) ==
    Then(Then(validate_required_fields(cfg, f), validate_jira_compliance(cfg, f)),
         validate_data_quality(f))

-----------------------------------------------------------------------------
(* DataValidator.generate_validation_report *)

\* "=" * 50
SeparatorWidth == 50

NoMsg == Msg("", "", 0, <<>>)

\* one line of the report: what it is, its text, the message of a bullet and
\* the width of a separator
Line(kind, text, msg, width) == [kind |-> kind, text |-> text, msg |-> msg, width |-> width]

\* for x in msgs: report.append(f"    - {x}")
Bullets(msgs) == [i \in DOMAIN msgs |-> Line("bullet", "    - ", msgs[i], 0)]

\* if msgs: report.append(title); the bullets
BulletList(title, msgs) ==
    IF msgs # <<>> THEN << Line("list", title, NoMsg, 0) >> \o Bullets(msgs) ELSE <<>>

\* generate_validation_report with the output section listing the input's errors
generate_validation_report_mixed(input_validation, output_validation) ==
    << Line("title", "CSV TRANSFORMATION VALIDATION REPORT", NoMsg, 0),
       Line("separator", "=", NoMsg, SeparatorWidth),
       Line("timestamp", "Generated: <now>", NoMsg, 0),
       Line("blank", "", NoMsg, 0),
       Line("input", "INPUT DATA VALIDATION:", NoMsg, 0),
       Line("status", IF input_validation.is_valid THEN "PASS" ELSE "FAIL", NoMsg, 0),
       Line("rows", "  Rows: ", NoMsg, input_validation.row_count),
       Line("columns", "  Columns: ", NoMsg, input_validation.column_count) >>
    \o BulletList("  Errors:", input_validation.errors)
    \o BulletList("  Warnings:", input_validation.warnings)
    \o << Line("blank", "", NoMsg, 0),
          Line("output", "OUTPUT DATA VALIDATION:", NoMsg, 0),
          Line("status", IF output_validation.is_valid THEN "PASS" ELSE "FAIL", NoMsg, 0),
          Line("jira ready", IF output_validation.ready_for_import THEN "YES" ELSE "NO",
               NoMsg, 0) >>
    \o BulletList("  Errors:", input_validation.errors)
    \o BulletList("  Warnings:", output_validation.warnings)
    \o << Line("blank", "", NoMsg, 0),
          Line("separator", "=", NoMsg, SeparatorWidth) >>

\* the lines of the report, in order ("\n".join(report) is these lines)
generate_validation_report(input_validation, output_validation) ==
    << Line("title", "CSV TRANSFORMATION VALIDATION REPORT", NoMsg, 0),
       Line("separator", "=", NoMsg, SeparatorWidth),
       Line("timestamp", "Generated: <now>", NoMsg, 0),
       Line("blank", "", NoMsg, 0),
       Line("input", "INPUT DATA VALIDATION:", NoMsg, 0),
       Line("status", IF input_validation.is_valid THEN "PASS" ELSE "FAIL", NoMsg, 0),
       Line("rows", "  Rows: ", NoMsg, input_validation.row_count),
       Line("columns", "  Columns: ", NoMsg, input_validation.column_count) >>
    \o BulletList("  Errors:", input_validation.errors)
    \o BulletList("  Warnings:", input_validation.warnings)
    \o << Line("blank", "", NoMsg, 0),
          Line("output", "OUTPUT DATA VALIDATION:", NoMsg, 0),
          Line("status", IF output_validation.is_valid THEN "PASS" ELSE "FAIL", NoMsg, 0),
          Line("jira ready", IF output_validation.ready_for_import THEN "YES" ELSE "NO",
               NoMsg, 0) >>
    \o BulletList("  Errors:", output_validation.errors)
    \o BulletList("  Warnings:", output_validation.warnings)
    \o << Line("blank", "", NoMsg, 0),
          Line("separator", "=", NoMsg, SeparatorWidth) >>

-----------------------------------------------------------------------------
(* Configurations *)

\* the built-in default of CSVTransformer._load_config
DefaultConfig ==
    [column_mappings |-> << <<"Summary", "Title">>, <<"Issue Type", "Test">>,
                            <<"Priority", "Priority">>, <<"Component", "Section">>,
                            <<"Description", "Preconditions">> >>,
     static_values |-> << <<"Issue Type", "Test">>, <<"Project Key", "PROJ">> >>,
     transformations |-> << <<"Priority", "priority_mapping">>,
                            <<"Component", "extract_component">> >>,
     required_fields |-> <<"Summary", "Issue Type">>,
     jira_fields |-> <<"Summary", "Issue Type", "Priority", "Component",
                       "Description", "Project Key", "Labels">>,
     validation_rules |-> <<>>]

OutFields == {"Summary", "Issue Type", "Labels"}

\* every jira_fields list of 1..MaxFields names, repeated names included
JiraFieldLists == UNION { [1..n -> OutFields] : n \in 1..MaxFields }

StaticChoices == { <<>>, << <<"Issue Type", "Test">> >> }

MappingChoices ==
    { << <<"Summary", "Title">>, <<"Issue Type", "Type">> >>,
      << <<"Summary", "Title">>, <<"Issue Type", "Type">>, <<"Labels", "Section">> >> }

TransformationChoices ==
    { <<>>,
      << <<"Summary", "no_such_function">>, <<"Labels", "extract_component">> >>,
      << <<"Summary", "_load_config">> >>,
      << <<"Summary", "format_summary">> >>,
      << <<"Labels", "generate_labels">> >> }

\* configurations loaded from a file by _load_config
FileConfigs ==
    { [column_mappings |-> m, static_values |-> s, transformations |-> t,
       required_fields |-> <<"Summary", "Issue Type">>, jira_fields |-> j,
       validation_rules |-> <<>>] :
        m \in MappingChoices, s \in StaticChoices, t \in TransformationChoices,
        j \in JiraFieldLists }

EngineConfigs == {DefaultConfig} \cup FileConfigs

\* {}: a configuration without keys, as config.get(key, default) reads it
EmptyConfig ==
    [column_mappings |-> <<>>, static_values |-> <<>>, transformations |-> <<>>,
     required_fields |-> <<>>, jira_fields |-> <<>>, validation_rules |-> <<>>]

\* what a configuration path names: no path given, a path without a file, a
\* file json.load rejects, or a file with a configuration in it
NoPath == [state |-> "none", content |-> EmptyConfig]
MissingFile == [state |-> "missing", content |-> EmptyConfig]
UnparseableFile == [state |-> "unparseable", content |-> EmptyConfig]
ParsedFile(c) == [state |-> "parsed", content |-> c]

\* the configuration written in the files of the command line runs
CustomConfig ==
    [column_mappings |-> << <<"Summary", "Title">>, <<"Labels", "Section">> >>,
     static_values |-> << <<"Issue Type", "Test">> >>,
     transformations |-> << <<"Labels", "extract_component">> >>,
     required_fields |-> <<"Summary", "Labels">>,
     jira_fields |-> <<"Summary", "Issue Type", "Labels">>,
     validation_rules |-> <<>>]

\* CSVTransformer._load_config(config_path)
load_config(file) == IF file.state = "parsed" THEN file.content ELSE DefaultConfig

-----------------------------------------------------------------------------
(* Input files *)

\* a frame with the given column labels and rows (each row a tuple of cells)
FrameOf(cols, rows) ==
    [columns |-> cols, index |-> Len(rows),
     data |-> [c \in DOMAIN cols |-> [r \in DOMAIN rows |-> rows[r][c]]]]

RowLists(rowset) == UNION { [1..n -> rowset] : n \in 0..MaxRows }

Frames(cols, rowset) == { FrameOf(cols, rows) : rows \in RowLists(rowset) }

\* what pd.read_csv can return: at least one column, unique labels, any number of rows
SmallFrames ==
    Frames(<<"Title">>, { <<"Login">>, <<NaN>> })
    \cup Frames(<<"Section">>, { <<"UI > Login">>, <<NaN>> })
    \cup Frames(<<"Title", "Section">>,
                { <<"Login", "UI > Login">>, <<NaN, "UI > Login">>, <<"Login", NaN>> })

TestRailFrames ==
    Frames(<<"ID", "Title", "Priority", "Section", "Preconditions">>,
           { <<"1", "Login", "critical", "UI > Login", "Logged out">>,
             <<"2", "Logout", NaN, NaN, NaN>> })

Unreadable == [columns |-> <<"<unreadable>">>, index |-> 0, data |-> << <<>> >>]

\* Path(input_file).exists() is false
NoFile == [columns |-> <<"<no file>">>, index |-> 0, data |-> << <<>> >>]

\* the outcome of pd.read_csv(input_file): a frame, or an exception
InputFiles == SmallFrames \cup TestRailFrames \cup {Unreadable}

\* the files of a batch directory: valid exports, an export whose only title
\* is missing, a header without rows, and a malformed file
BatchFiles ==
    { FrameOf(<<"Title", "Section">>, << <<"Login", "UI > Login">> >>),
      FrameOf(<<"Title", "Section">>, << <<NaN, "UI > Login">> >>),
      FrameOf(<<"Section">>, << <<"UI > Login">> >>),
      FrameOf(<<"Title", "Section">>, << >>),
      Unreadable }

\* what read_csv may find: any file of the batch directory, the one input
\* file of a command line run, or any input file
FilesOf(s) ==
    IF s = "batch" THEN BatchFiles
    ELSE IF s = "cli" THEN {cli.input}
    ELSE InputFiles

-----------------------------------------------------------------------------
(* CSVTransformer.transform, step by step *)

NoResult ==
    [success |-> FALSE, error |-> "<none>", original_rows |-> -1, transformed_rows |-> -1,
     errors |-> 0, warnings |-> 0, output_file |-> FALSE]

\* no command line run, and no library call
NoCli ==
    [command |-> "<none>", phase |-> "off", exit |-> -1, input |-> NoFile,
     config_file |-> NoPath, default_file |-> MissingFile, validate |-> FALSE,
     response |-> "n", report |-> FALSE, validation |-> "none", error |-> ""]
NoCall == [func |-> "<none>", args |-> <<>>, value |-> "<none>"]

NoBatch ==
    [phase |-> "off", files |-> 0, i |-> 0, attempts |-> <<>>,
     success_count |-> 0, error_count |-> 0, exit |-> -1]

\* reset_tracking emptying the two lists in place (self.errors.clear())
reset_tracking_clear(h) ==
    [heap |-> [h EXCEPT ![selfErrors] = <<>>, ![selfWarnings] = <<>>],
     errors |-> selfErrors, warnings |-> selfWarnings]

\* self.errors = [] ; self.warnings = []: two fresh lists
reset_tracking(h) ==
    [heap |-> h \o << <<>>, <<>> >>, errors |-> Len(h) + 1, warnings |-> Len(h) + 2]

\* list.append through a reference
AppendAll(h, ref, msgs) == [h EXCEPT ![ref] = @ \o msgs]

\* entering transform(input_file, output_file, preview): lines 107-110
BeginTransform(p) ==
    LET fresh == reset_tracking(heap)
    IN  /\ heap' = fresh.heap
        /\ selfErrors' = fresh.errors
        /\ selfWarnings' = fresh.warnings
        /\ preview' = p
        /\ df' = EmptyFrame
        /\ result_df' = EmptyFrame
        /\ raised' = ""
        /\ steps' = <<"reset">>
        /\ writes' = 0
        /\ outfile' = "untouched"
        /\ pc' = "read"

\* a caller invokes transform once, in either mode
TransformCall ==
    /\ scenario = "transform"
    /\ pc = "idle"
    /\ \E p \in BOOLEAN : BeginTransform(p)
    /\ UNCHANGED <<config, result, batch, valErrors, valWarnings, vdf, history, scenario, cli, call>>

\* df = pd.read_csv(input_file); original_count = len(df)
ReadCsv ==
    /\ pc = "read"
    /\ \E contents \in FilesOf(scenario) :
         IF contents = Unreadable
         THEN /\ raised' = "read_csv failed"
              /\ pc' = "except"
              /\ UNCHANGED <<df, steps>>
         ELSE /\ df' = contents
              /\ steps' = Append(steps, "read")
              /\ pc' = "validate_input"
              /\ UNCHANGED raised
    /\ UNCHANGED <<config, heap, selfErrors, selfWarnings, preview, result_df, writes,
                   outfile, result, batch, valErrors, valWarnings, vdf, history, scenario, cli, call>>

\* self._validate_input(df)
ValidateInput ==
    /\ pc = "validate_input"
    /\ LET r == validate_input(config, df)
       IN  /\ heap' = AppendAll(heap, selfWarnings, r.warnings)
           /\ IF r.raised # ""
              THEN /\ raised' = r.raised
                   /\ pc' = "except"
                   /\ UNCHANGED steps
              ELSE /\ steps' = Append(steps, "validate_input")
                   /\ pc' = "apply_transformations"
                   /\ UNCHANGED raised
    /\ UNCHANGED <<config, selfErrors, selfWarnings, preview, df, result_df, writes,
                   outfile, result, batch, valErrors, valWarnings, vdf, history, scenario, cli, call>>

\* transformed_df = self._apply_transformations(df)
ApplyTransformations ==
    /\ pc = "apply_transformations"
    /\ LET r == apply_transformations(config, df)
       IN  /\ heap' = AppendAll(heap, selfWarnings, r.warnings)
           /\ IF r.raised # ""
              THEN /\ raised' = r.raised
                   /\ pc' = "except"
                   /\ UNCHANGED <<steps, result_df>>
              ELSE /\ result_df' = r.frame
                   /\ steps' = Append(steps, "apply_transformations")
                   /\ pc' = "validate_output"
                   /\ UNCHANGED raised
    /\ UNCHANGED <<config, selfErrors, selfWarnings, preview, df, writes,
                   outfile, result, batch, valErrors, valWarnings, vdf, history, scenario, cli, call>>

\* ValidateOutput raising when it has recorded an error
ValidateOutputHalting ==
    /\ pc = "validate_output"
    /\ heap' = AppendAll(heap, selfErrors, validate_output(config, result_df))
    /\ IF validate_output(config, result_df) # <<>>
       THEN /\ raised' = "ValueError: output validation failed"
            /\ pc' = "except"
            /\ UNCHANGED steps
       ELSE /\ steps' = Append(steps, "validate_output")
            /\ pc' = "preview_or_save"
            /\ UNCHANGED raised
    /\ UNCHANGED <<config, selfErrors, selfWarnings, preview, df, result_df, writes,
                   outfile, result, batch, valErrors, valWarnings, vdf, history, scenario,
                   cli, call>>

\* self._validate_output(transformed_df)
ValidateOutput ==
    /\ pc = "validate_output"
    /\ heap' = AppendAll(heap, selfErrors, validate_output(config, result_df))
    /\ steps' = Append(steps, "validate_output")
    /\ pc' = "preview_or_save"
    /\ UNCHANGED <<config, selfErrors, selfWarnings, preview, df, result_df, raised, writes,
                   outfile, result, batch, valErrors, valWarnings, vdf, history, scenario, cli, call>>

\* if preview: self._show_preview(transformed_df)
ShowPreview ==
    /\ pc = "preview_or_save"
    /\ preview
    /\ steps' = Append(steps, "show_preview")
    /\ pc' = "return"
    /\ UNCHANGED <<config, heap, selfErrors, selfWarnings, preview, df, result_df, raised,
                   writes, outfile, result, batch, valErrors, valWarnings, vdf, history,
                   scenario, cli, call>>

\* SaveCsv without the test of the preview flag
SaveCsvAlways ==
    /\ pc = "preview_or_save"
    /\ writes' = writes + 1
    /\ outfile' = "written"
    /\ steps' = Append(steps, "to_csv")
    /\ pc' = "return"
    /\ UNCHANGED <<config, heap, selfErrors, selfWarnings, preview, df, result_df, raised,
                   result, batch, valErrors, valWarnings, vdf, history, scenario, cli, call>>

\* else: transformed_df.to_csv(output_file, index=False), which may fail
\* (leaving nothing, or a part of the file, behind)
SaveCsv ==
    /\ pc = "preview_or_save"
    /\ ~preview
    /\ writes' = writes + 1
    /\ \/ /\ outfile' = "written"
          /\ steps' = Append(steps, "to_csv")
          /\ pc' = "return"
          /\ UNCHANGED raised
       \/ /\ outfile' \in {"untouched", "partial"}
          /\ raised' = "to_csv failed"
          /\ pc' = "except"
          /\ UNCHANGED steps
    /\ UNCHANGED <<config, heap, selfErrors, selfWarnings, preview, df, result_df,
                   result, batch, valErrors, valWarnings, vdf, history, scenario, cli, call>>

\* what a finished call leaves in history: the dict it returned and the
\* contents its two lists had at that moment
Returned(res, h) ==
    [result |-> res, errors |-> h[res.errors], warnings |-> h[res.warnings]]

\* return {"success": True, ...}: lines 134-141
ReturnSuccess ==
    /\ pc = "return"
    /\ result' = [success |-> TRUE, error |-> "<none>",
                  original_rows |-> df.index, transformed_rows |-> result_df.index,
                  errors |-> selfErrors, warnings |-> selfWarnings,
                  output_file |-> ~preview]
    /\ history' = Append(history, Returned(result', heap))
    /\ pc' = "returned"
    /\ UNCHANGED <<config, heap, selfErrors, selfWarnings, preview, df, result_df, raised,
                   steps, writes, outfile, batch, valErrors, valWarnings, vdf, scenario, cli, call>>

\* except Exception as e: return {"success": False, ...}: lines 143-150
ReturnFailure ==
    /\ pc = "except"
    /\ result' = [success |-> FALSE, error |-> raised,
                  original_rows |-> -1, transformed_rows |-> -1,
                  errors |-> selfErrors, warnings |-> selfWarnings,
                  output_file |-> FALSE]
    /\ history' = Append(history, Returned(result', heap))
    /\ pc' = "returned"
    /\ UNCHANGED <<config, heap, selfErrors, selfWarnings, preview, df, result_df, raised,
                   steps, writes, outfile, batch, valErrors, valWarnings, vdf, scenario, cli, call>>

TransformSteps ==
    \/ ReadCsv
    \/ ValidateInput
    \/ ApplyTransformations
    \/ ValidateOutput
    \/ ShowPreview
    \/ SaveCsv
    \/ ReturnSuccess
    \/ ReturnFailure

\* CSVTransformer.__init__: the configuration, and two empty lists
InitEngine ==
    /\ scenario = "transform"
    /\ config \in EngineConfigs
    /\ heap = << <<>>, <<>> >>
    /\ selfErrors = 1
    /\ selfWarnings = 2
    /\ pc = "idle"
    /\ preview = FALSE
    /\ df = EmptyFrame
    /\ result_df = EmptyFrame
    /\ raised = ""
    /\ steps = <<>>
    /\ writes = 0
    /\ outfile = "untouched"
    /\ result = NoResult
    /\ batch = NoBatch
    /\ valErrors = 0
    /\ valWarnings = 0
    /\ vdf = EmptyFrame
    /\ history = <<>>
    /\ cli = NoCli
    /\ call = NoCall

NextEngine == TransformCall \/ TransformSteps

SpecEngine == InitEngine /\ [][NextEngine]_vars

-----------------------------------------------------------------------------
(* command_batch (src/cli.py) *)

BatchConfigs ==
    { DefaultConfig,
      [DefaultConfig EXCEPT !.transformations = << <<"Summary", "no_such_function">> >>],
      [DefaultConfig EXCEPT !.jira_fields = <<"Issue Type", "Summary", "Component">>,
                            !.required_fields = <<"Summary", "Component">>] }

\* lines 225-249: the directory and pattern checks, then the engine is built
BatchStart ==
    /\ scenario = "batch"
    /\ batch.phase = "start"
    /\ \E exists \in BOOLEAN, matched \in 0..MaxFiles :
         IF ~exists \/ matched = 0
         THEN /\ batch' = [batch EXCEPT !.phase = "done", !.exit = 1]
              /\ UNCHANGED <<heap, selfErrors, selfWarnings>>
         ELSE /\ batch' = [batch EXCEPT !.phase = "loop", !.files = matched, !.i = 1,
                                        !.attempts = [k \in 1..matched |-> 0]]
              /\ heap' = << <<>>, <<>> >>
              /\ selfErrors' = 1
              /\ selfWarnings' = 2
    /\ UNCHANGED <<config, pc, preview, df, result_df, raised, steps, writes, outfile,
                   result, valErrors, valWarnings, vdf, history, scenario, cli, call>>

\* line 255: transformer.transform(str(input_file), str(output_file))
BatchCall ==
    /\ batch.phase = "loop"
    /\ pc = "idle"
    /\ batch.i <= batch.files
    /\ BeginTransform(FALSE)
    /\ batch' = [batch EXCEPT !.attempts[batch.i] = @ + 1]
    /\ UNCHANGED <<config, result, valErrors, valWarnings, vdf, history, scenario, cli, call>>

\* BatchCollect leaving the loop at the first failed file
BatchCollectAbort ==
    /\ batch.phase = "loop"
    /\ pc = "returned"
    /\ batch' = IF result.success
                THEN [batch EXCEPT !.success_count = @ + 1, !.i = @ + 1]
                ELSE [batch EXCEPT !.error_count = @ + 1, !.phase = "done", !.exit = 1]
    /\ pc' = "idle"
    /\ UNCHANGED <<config, heap, selfErrors, selfWarnings, preview, df, result_df, raised,
                   steps, writes, outfile, result, valErrors, valWarnings, vdf, history,
                   scenario, cli, call>>

\* lines 257-262: count the outcome, move to the next file
BatchCollect ==
    /\ batch.phase = "loop"
    /\ pc = "returned"
    /\ batch' = IF result.success
                THEN [batch EXCEPT !.success_count = @ + 1, !.i = @ + 1]
                ELSE [batch EXCEPT !.error_count = @ + 1, !.i = @ + 1]
    /\ pc' = "idle"
    /\ UNCHANGED <<config, heap, selfErrors, selfWarnings, preview, df, result_df, raised,
                   steps, writes, outfile, result, valErrors, valWarnings, vdf, history,
                   scenario, cli, call>>

\* lines 264-268: the loop is over; the exit code
BatchFinish ==
    /\ batch.phase = "loop"
    /\ pc = "idle"
    /\ batch.i > batch.files
    /\ batch' = [batch EXCEPT !.phase = "done",
                              !.exit = IF batch.error_count = 0 THEN 0 ELSE 1]
    /\ UNCHANGED <<config, heap, selfErrors, selfWarnings, pc, preview, df, result_df,
                   raised, steps, writes, outfile, result, valErrors, valWarnings, vdf,
                   history, scenario, cli, call>>

InitBatch ==
    /\ scenario = "batch"
    /\ config \in BatchConfigs
    /\ heap = <<>>
    /\ selfErrors = 0
    /\ selfWarnings = 0
    /\ pc = "idle"
    /\ preview = FALSE
    /\ df = EmptyFrame
    /\ result_df = EmptyFrame
    /\ raised = ""
    /\ steps = <<>>
    /\ writes = 0
    /\ outfile = "untouched"
    /\ result = NoResult
    /\ batch = [NoBatch EXCEPT !.phase = "start"]
    /\ valErrors = 0
    /\ valWarnings = 0
    /\ vdf = EmptyFrame
    /\ history = <<>>
    /\ cli = NoCli
    /\ call = NoCall

-----------------------------------------------------------------------------
(* A caller of the validator: validate_input_data / validate_output_data    *)
(* called in any order on one DataValidator                                 *)

ValidatorRules ==
    << <<"max_summary_length", 5>>, <<"allowed_priorities", <<"High">> >>,
       <<"required_issue_types", <<"Test">> >> >>

ValidatorConfigs ==
    { [DefaultConfig EXCEPT !.required_fields = r, !.validation_rules = v] :
        r \in { <<"Summary", "Issue Type">>, <<"Component", "Summary">>, <<>> },
        v \in { <<>>, ValidatorRules } }

\* frames shaped like an engine output
OutputFrames ==
    Frames(<<"Summary", "Issue Type">>, { <<"Login", "Test">>, <<NaN, "Bug">> })
    \cup { FrameOf(<<"Summary", "Issue Type">>, rows) :
             rows \in { << <<"", "Test">>, <<"Login", "Test">> >>,
                        << <<"", "Test">>, <<NaN, "Test">> >> } }

\* frames shaped like a TestRail export
ExportFrames ==
    { FrameOf(<<"Title", "Priority", "Created", "Email", "Project Key">>, rows) :
        rows \in
          { << <<"Login", "High", "2024-01-31", "a@b.co", "PROJ">> >>,
            << <<"Login", "Urgent", "13/45/2024", "nobody", "proj">>,
               <<"Login", NaN, NaN, NaN, NaN>> >>,
            << <<NaN, NaN, NaN, NaN, NaN>> >> } }

\* frames whose schema repeats a label (built by the caller: pd.read_csv
\* renames repeated headers)
DuplicateLabelFrames ==
    { FrameOf(<<"Title", "Title">>, rows) :
        rows \in { << <<"Login", "Logout">> >>, << <<NaN, NaN>> >> } }

ValidatorFrames == OutputFrames \cup ExportFrames \cup DuplicateLabelFrames

\* self.errors = [] ; self.warnings = [] of the validator: two fresh lists
reset_lists(h) ==
    [heap |-> h \o << <<>>, <<>> >>, errors |-> Len(h) + 1, warnings |-> Len(h) + 2]

\* the caller holds a frame and is about to hand it to the validator
ValidatorLoad ==
    /\ scenario = "validator"
    /\ pc = "idle"
    /\ Len(history) < MaxCalls
    /\ vdf' \in ValidatorFrames
    /\ pc' = "loaded"
    /\ UNCHANGED <<config, heap, selfErrors, selfWarnings, preview, df, result_df, raised,
                   steps, writes, outfile, result, batch, valErrors, valWarnings, history,
                   scenario, cli, call>>

\* ValidatorCall with a warning, too, turning is_valid off
ValidatorCallStrict(kind, outcome, after) ==
    LET fresh == reset_lists(heap)
        filled == AppendAll(AppendAll(fresh.heap, fresh.errors, outcome.errors),
                            fresh.warnings, outcome.warnings)
        res == [kind |-> kind,
                is_valid |-> Len(filled[fresh.errors]) = 0 /\ Len(filled[fresh.warnings]) = 0,
                errors |-> fresh.errors,
                warnings |-> fresh.warnings,
                row_count |-> IF kind = "input" THEN after.index ELSE -1,
                column_count |-> IF kind = "input" THEN Len(after.columns) ELSE -1,
                ready_for_import |-> kind = "output" /\ Len(filled[fresh.errors]) = 0]
    IN  /\ heap' = filled
        /\ valErrors' = fresh.errors
        /\ valWarnings' = fresh.warnings
        /\ vdf' = after
        /\ raised' = outcome.raised
        /\ history' = IF outcome.raised = ""
                      THEN Append(history, Returned(res, filled))
                      ELSE history
        /\ pc' = IF outcome.raised = "" THEN "idle" ELSE "raised"
        /\ steps' = <<kind>>
        /\ UNCHANGED <<config, selfErrors, selfWarnings, preview, df, result_df,
                       writes, outfile, result, batch, scenario, cli, call>>

\* one call of an entry point: fresh lists, the checks append to them, and the
\* returned dict refers to them.  A raised exception returns nothing.
ValidatorCall(kind, outcome, after) ==
    LET fresh == reset_lists(heap)
        filled == AppendAll(AppendAll(fresh.heap, fresh.errors, outcome.errors),
                            fresh.warnings, outcome.warnings)
        res == [kind |-> kind,
                is_valid |-> Len(filled[fresh.errors]) = 0,
                errors |-> fresh.errors,
                warnings |-> fresh.warnings,
                row_count |-> IF kind = "input" THEN after.index ELSE -1,
                column_count |-> IF kind = "input" THEN Len(after.columns) ELSE -1,
                ready_for_import |-> kind = "output" /\ Len(filled[fresh.errors]) = 0]
    IN  /\ heap' = filled
        /\ valErrors' = fresh.errors
        /\ valWarnings' = fresh.warnings
        /\ vdf' = after
        /\ raised' = outcome.raised
        /\ history' = IF outcome.raised = ""
                      THEN Append(history, Returned(res, filled))
                      ELSE history
        /\ pc' = IF outcome.raised = "" THEN "idle" ELSE "raised"
        /\ steps' = <<kind>>
        /\ UNCHANGED <<config, selfErrors, selfWarnings, preview, df, result_df,
                       writes, outfile, result, batch, scenario, cli, call>>

\* DataValidator.validate_input_data(df)
ValidateInputData ==
    /\ scenario = "validator"
    /\ pc = "loaded"
    /\ ValidatorCall("input", validate_input_data(config, vdf), vdf)

\* DataFrame.fillna("")
fillna(f) ==
    [f EXCEPT !.data = [c \in DOMAIN f.data |->
                          [r \in DOMAIN f.data[c] |->
                             IF isna(f.data[c][r]) THEN "" ELSE f.data[c][r]]]]

\* validate_output_data normalising the caller's frame in place first
ValidateOutputDataInPlace ==
    /\ scenario = "validator"
    /\ pc = "loaded"
    /\ ValidatorCall("output", validate_output_data(config, fillna(vdf)), fillna(vdf))

\* DataValidator.validate_output_data(df)
ValidateOutputData ==
    /\ scenario = "validator"
    /\ pc = "loaded"
    /\ ValidatorCall("output", validate_output_data(config, vdf), vdf)

\* DataValidator.__init__: the configuration, and two empty lists
InitValidator ==
    /\ scenario = "validator"
    /\ config \in ValidatorConfigs
    /\ heap = << <<>>, <<>> >>
    /\ selfErrors = 0
    /\ selfWarnings = 0
    /\ pc = "idle"
    /\ preview = FALSE
    /\ df = EmptyFrame
    /\ result_df = EmptyFrame
    /\ raised = ""
    /\ steps = <<>>
    /\ writes = 0
    /\ outfile = "untouched"
    /\ result = NoResult
    /\ batch = NoBatch
    /\ valErrors = 1
    /\ valWarnings = 2
    /\ vdf = EmptyFrame
    /\ history = <<>>
    /\ cli = NoCli
    /\ call = NoCall

Init == InitBatch \/ InitValidator

Next ==
    \/ BatchStart
    \/ BatchCall
    \/ ReadCsv
    \/ ValidateInput
    \/ ApplyTransformations
    \/ ValidateOutput
    \/ SaveCsv
    \/ ReturnSuccess
    \/ ReturnFailure
    \/ BatchCollect
    \/ BatchFinish
    \/ ValidatorLoad
    \/ ValidateInputData
    \/ ValidateOutputData

Spec == Init /\ [][Next]_vars

-----------------------------------------------------------------------------
(* The commands of src/cli.py other than batch *)

\* the arguments of a run: the command, --validate and the answer typed at
\* the prompt (transform), --report (validate)
CliArguments ==
    { [NoCli EXCEPT !.command = "transform", !.validate = v, !.response = r] :
        v \in BOOLEAN, r \in {"y", "n"} }
    \cup { [NoCli EXCEPT !.command = "preview"] }
    \cup { [NoCli EXCEPT !.command = "validate", !.report = r] : r \in BOOLEAN }
    \cup { [NoCli EXCEPT !.command = "init-config"] }

\* what --config names, and what config/default_config.json is
ConfigFiles == {NoPath, MissingFile, UnparseableFile, ParsedFile(CustomConfig)}
DefaultPathFiles == {MissingFile, UnparseableFile, ParsedFile(CustomConfig)}

\* the file command_validate loads: args.config or "config/default_config.json"
ValidateConfigFile(c) == IF c.config_file.state = "none" THEN c.default_file ELSE c.config_file

\* command_transform lines 99-107, command_preview lines 150-156: the input
\* file must exist; the engine is built
CommandStart ==
    /\ scenario = "cli"
    /\ cli.phase = "start"
    /\ cli.command \in {"transform", "preview"}
    /\ IF cli.input = NoFile
       THEN /\ cli' = [cli EXCEPT !.phase = "done", !.exit = 1]
            /\ UNCHANGED <<config, heap, selfErrors, selfWarnings>>
       ELSE /\ config' = load_config(cli.config_file)
            /\ heap' = << <<>>, <<>> >>
            /\ selfErrors' = 1
            /\ selfWarnings' = 2
            /\ cli' = [cli EXCEPT !.phase = IF cli.command = "transform" /\ cli.validate
                                            THEN "validate" ELSE "constructed"]
    /\ UNCHANGED <<pc, preview, df, result_df, raised, steps, writes, outfile, result,
                   batch, valErrors, valWarnings, vdf, history, scenario, call>>

\* command_transform lines 110-125: --validate.  A validator is built on the
\* engine's configuration, the file is read and validated; on errors the
\* user is asked whether to go on.  An exception of read_csv reaches main.
CommandTransformValidate ==
    /\ scenario = "cli"
    /\ cli.phase = "validate"
    /\ LET built == reset_lists(heap)
           fresh == reset_lists(built.heap)
           outcome == validate_input_data(config, cli.input)
       IN  IF cli.input = Unreadable
           THEN /\ heap' = built.heap
                /\ valErrors' = built.errors
                /\ valWarnings' = built.warnings
                /\ cli' = [cli EXCEPT !.phase = "done", !.exit = 1, !.error = "read_csv failed"]
                /\ UNCHANGED vdf
           ELSE /\ heap' = AppendAll(AppendAll(fresh.heap, fresh.errors, outcome.errors),
                                     fresh.warnings, outcome.warnings)
                /\ valErrors' = fresh.errors
                /\ valWarnings' = fresh.warnings
                /\ vdf' = cli.input
                /\ cli' = IF outcome.errors = <<>>
                          THEN [cli EXCEPT !.validation = "passed", !.phase = "constructed"]
                          ELSE IF Lower(cli.response) # "y"
                          THEN [cli EXCEPT !.validation = "failed", !.phase = "done", !.exit = 1]
                          ELSE [cli EXCEPT !.validation = "failed", !.phase = "constructed"]
    /\ UNCHANGED <<config, selfErrors, selfWarnings, pc, preview, df, result_df, raised,
                   steps, writes, outfile, result, batch, history, scenario, call>>

\* line 128: transformer.transform(input_file, output_file);
\* line 157: transformer.transform(input_file, "", preview=True)
CommandCallTransform ==
    /\ scenario = "cli"
    /\ cli.phase = "constructed"
    /\ pc = "idle"
    /\ BeginTransform(cli.command = "preview")
    /\ cli' = [cli EXCEPT !.phase = "running"]
    /\ UNCHANGED <<config, result, batch, valErrors, valWarnings, vdf, history, scenario,
                   call>>

\* lines 130-145 and 159-163: the exit code follows result['success']
CommandFinish ==
    /\ scenario = "cli"
    /\ cli.phase = "running"
    /\ pc = "returned"
    /\ cli' = [cli EXCEPT !.phase = "done", !.exit = IF result.success THEN 0 ELSE 1]
    /\ UNCHANGED <<config, heap, selfErrors, selfWarnings, pc, preview, df, result_df,
                   raised, steps, writes, outfile, result, batch, valErrors, valWarnings,
                   vdf, history, scenario, call>>

\* command_validate, lines 166-220.  The configuration is {} unless the file
\* exists; json.load is outside the try block, so its exception reaches main.
\* Reading, validating and writing the report are inside it.
CommandValidate ==
    /\ scenario = "cli"
    /\ cli.phase = "start"
    /\ cli.command = "validate"
    /\ LET file == ValidateConfigFile(cli)
           cfg == IF file.state = "parsed" THEN file.content ELSE EmptyConfig
           built == reset_lists(heap)
           fresh == reset_lists(built.heap)
           outcome == validate_input_data(cfg, cli.input)
       IN  IF cli.input = NoFile
           THEN /\ cli' = [cli EXCEPT !.phase = "done", !.exit = 1]
                /\ UNCHANGED <<config, heap, valErrors, valWarnings, vdf, writes, outfile>>
           ELSE IF file.state = "unparseable"
           THEN /\ cli' = [cli EXCEPT !.phase = "done", !.exit = 1,
                                      !.error = "JSONDecodeError"]
                /\ UNCHANGED <<config, heap, valErrors, valWarnings, vdf, writes, outfile>>
           ELSE IF cli.input = Unreadable
           THEN /\ config' = cfg
                /\ heap' = built.heap
                /\ valErrors' = built.errors
                /\ valWarnings' = built.warnings
                /\ cli' = [cli EXCEPT !.phase = "done", !.exit = 1,
                                      !.error = "read_csv failed"]
                /\ UNCHANGED <<vdf, writes, outfile>>
           ELSE /\ config' = cfg
                /\ heap' = AppendAll(AppendAll(fresh.heap, fresh.errors, outcome.errors),
                                     fresh.warnings, outcome.warnings)
                /\ valErrors' = fresh.errors
                /\ valWarnings' = fresh.warnings
                /\ vdf' = cli.input
                /\ IF cli.report
                   THEN \E written \in BOOLEAN :
                          /\ writes' = writes + 1
                          /\ outfile' = IF written THEN "report" ELSE "untouched"
                          /\ cli' = [cli EXCEPT
                                       !.validation = IF outcome.errors = <<>>
                                                      THEN "passed" ELSE "failed",
                                       !.phase = "done",
                                       !.error = IF written THEN "" ELSE "open failed",
                                       !.exit = IF written /\ outcome.errors = <<>>
                                                THEN 0 ELSE 1]
                   ELSE /\ cli' = [cli EXCEPT
                                     !.validation = IF outcome.errors = <<>>
                                                    THEN "passed" ELSE "failed",
                                     !.phase = "done",
                                     !.exit = IF outcome.errors = <<>> THEN 0 ELSE 1]
                        /\ UNCHANGED <<writes, outfile>>
    /\ UNCHANGED <<selfErrors, selfWarnings, pc, preview, df, result_df, raised, steps,
                   result, batch, history, scenario, call>>

\* command_init_config, lines 271-312: the template is loaded when its file
\* exists (json.load may raise), the new file is written (open may raise)
CommandInitConfig ==
    /\ scenario = "cli"
    /\ cli.phase = "start"
    /\ cli.command = "init-config"
    /\ IF cli.default_file.state = "unparseable"
       THEN /\ cli' = [cli EXCEPT !.phase = "done", !.exit = 1, !.error = "JSONDecodeError"]
            /\ UNCHANGED <<writes, outfile>>
       ELSE \E written \in BOOLEAN :
              /\ writes' = writes + 1
              /\ outfile' = IF written THEN "config" ELSE "untouched"
              /\ cli' = [cli EXCEPT !.phase = "done",
                                    !.error = IF written THEN "" ELSE "open failed",
                                    !.exit = IF written THEN 0 ELSE 1]
    /\ UNCHANGED <<config, heap, selfErrors, selfWarnings, pc, preview, df, result_df,
                   raised, steps, result, batch, valErrors, valWarnings, vdf, history,
                   scenario, call>>

\* main, lines 315-339: a command has been parsed and its handler is entered
InitCli ==
    /\ scenario = "cli"
    /\ config = EmptyConfig
    /\ heap = <<>>
    /\ selfErrors = 0
    /\ selfWarnings = 0
    /\ pc = "idle"
    /\ preview = FALSE
    /\ df = EmptyFrame
    /\ result_df = EmptyFrame
    /\ raised = ""
    /\ steps = <<>>
    /\ writes = 0
    /\ outfile = "untouched"
    /\ result = NoResult
    /\ batch = NoBatch
    /\ valErrors = 0
    /\ valWarnings = 0
    /\ vdf = EmptyFrame
    /\ history = <<>>
    /\ call = NoCall
    /\ cli \in { [a EXCEPT !.phase = "start", !.input = i, !.config_file = c,
                            !.default_file = d] :
                    a \in CliArguments, i \in InputFiles \cup {NoFile},
                    c \in ConfigFiles, d \in DefaultPathFiles }

NextCli ==
    \/ CommandStart
    \/ CommandTransformValidate
    \/ CommandCallTransform
    \/ CommandFinish
    \/ CommandValidate
    \/ CommandInitConfig
    \/ TransformSteps
    \/ BatchStart
    \/ BatchCall
    \/ BatchCollect
    \/ BatchFinish

SpecCli == (InitCli \/ InitBatch) /\ [][NextCli]_vars

-----------------------------------------------------------------------------
(* Direct calls of the library's functions *)

\* the cells a transformation function is called on: priority indicators in
\* several spellings, section paths, other text, and the missing marker
PriorityCells ==
    {"1", "2", "3", "4", "low", "medium", "high", "critical",
     "LOW", "Low", "MEDIUM", "Medium", "HIGH", "High", "hIgH", "CRITICAL", "Critical",
     "0", "5", "1.0", "Urgent", "urgent", "highest", "Highest", " high", ""}

SectionCells ==
    {"UI > Login", "UI > Login > Button", "Login > UI", "UI > UI", " > UI", "UI > ",
     "UI", "Login", "UI>Login", "UI >Login", ">", "Section"}

CellArguments == PriorityCells \cup SectionCells \cup {NaN}

\* every list of at most MaxMessages messages over the given ones
MessageLists(msgs) == UNION { [1..n -> msgs] : n \in 0..MaxMessages }

InputErrorMessages == { Msg("DataFrame is empty", "", 0, <<>>) }

InputWarningMessages ==
    { Msg("Completely empty columns", "", 0, <<"Title">>),
      Msg("Expected columns not found", "", 0, <<"Section">>) }

OutputErrorMessages ==
    { Msg("Required field missing", "Summary", 0, <<>>),
      Msg("Required field has empty values", "Issue Type", 1, <<>>) }

OutputWarningMessages == { Msg("Column is mostly empty", "Labels", 1000, <<>>) }

\* the dicts validate_input_data returns, with their lists by value
InputResults ==
    { [is_valid |-> e = <<>>, errors |-> e, warnings |-> w,
       row_count |-> 1, column_count |-> 2] :
        e \in MessageLists(InputErrorMessages), w \in MessageLists(InputWarningMessages) }

\* the dicts validate_output_data returns, with their lists by value
OutputResults ==
    { [is_valid |-> e = <<>>, errors |-> e, warnings |-> w, ready_for_import |-> e = <<>>] :
        e \in MessageLists(OutputErrorMessages), w \in MessageLists(OutputWarningMessages) }

ReportArguments == { <<i, o>> : i \in InputResults, o \in OutputResults }

\* validator.generate_validation_report(input_validation, output_validation)
GenerateValidationReport ==
    /\ scenario = "functions"
    /\ call.func = "<none>"
    /\ Len(call.args) = 2
    /\ call' = [call EXCEPT !.func = "generate_validation_report",
                            !.value = generate_validation_report(call.args[1], call.args[2])]
    /\ UNCHANGED <<config, heap, selfErrors, selfWarnings, pc, preview, df, result_df,
                   raised, steps, writes, outfile, result, batch, valErrors, valWarnings,
                   vdf, history, scenario, cli>>

\* self.priority_mapping(cell)
CallPriorityMapping ==
    /\ scenario = "functions"
    /\ call.func = "<none>"
    /\ Len(call.args) = 1
    /\ call' = [call EXCEPT !.func = "priority_mapping",
                            !.value = priority_mapping(call.args[1])]
    /\ UNCHANGED <<config, heap, selfErrors, selfWarnings, pc, preview, df, result_df,
                   raised, steps, writes, outfile, result, batch, valErrors, valWarnings,
                   vdf, history, scenario, cli>>

\* self.extract_component(cell)
CallExtractComponent ==
    /\ scenario = "functions"
    /\ call.func = "<none>"
    /\ Len(call.args) = 1
    /\ call' = [call EXCEPT !.func = "extract_component",
                            !.value = extract_component(call.args[1])]
    /\ UNCHANGED <<config, heap, selfErrors, selfWarnings, pc, preview, df, result_df,
                   raised, steps, writes, outfile, result, batch, valErrors, valWarnings,
                   vdf, history, scenario, cli>>

\* the arguments of the call about to be made
CallArguments == { <<c>> : c \in CellArguments } \cup ReportArguments

InitFunctions ==
    /\ scenario = "functions"
    /\ config = DefaultConfig
    /\ heap = <<>>
    /\ selfErrors = 0
    /\ selfWarnings = 0
    /\ pc = "idle"
    /\ preview = FALSE
    /\ df = EmptyFrame
    /\ result_df = EmptyFrame
    /\ raised = ""
    /\ steps = <<>>
    /\ writes = 0
    /\ outfile = "untouched"
    /\ result = NoResult
    /\ batch = NoBatch
    /\ valErrors = 0
    /\ valWarnings = 0
    /\ vdf = EmptyFrame
    /\ history = <<>>
    /\ cli = NoCli
    /\ call \in { [NoCall EXCEPT !.args = a] : a \in CallArguments }

NextFunctions == CallPriorityMapping \/ CallExtractComponent \/ GenerateValidationReport

SpecFunctions == InitFunctions /\ [][NextFunctions]_vars

-----------------------------------------------------------------------------
(* Properties of the projection *)

\* _apply_transformations of the running call has returned its frame
Projected == InList("apply_transformations", steps)

\* positions of jira_fields, and the fields listed there
Listed(cfg) == { cfg.jira_fields[i] : i \in DOMAIN cfg.jira_fields }

\* f is mapped, not overridden by a static value, and its source column is
\* missing from the input
SourceMissing(cfg, input, f) ==
    /\ ~Has(cfg.static_values, f)
    /\ Has(cfg.column_mappings, f)
    /\ ~HasColumn(input, Get(cfg.column_mappings, f))

\* f is mapped, not overridden, and its source column is in the input
SourcePresent(cfg, input, f) ==
    /\ ~Has(cfg.static_values, f)
    /\ Has(cfg.column_mappings, f)
    /\ HasColumn(input, Get(cfg.column_mappings, f))

\* C1 (as claimed): every static field listed in jira_fields holds its literal
\* in every record of the projected table, wherever the field stands in
\* jira_fields and also when it is a key of column_mappings too.
C1_StaticLiteralInEveryRecord ==
    Projected =>
        \A f \in Listed(config) \cap Keys(config.static_values) :
            /\ HasColumn(result_df, f)
            /\ \A r \in DOMAIN Column(result_df, f) :
                   Column(result_df, f)[r] = Get(config.static_values, f)

\* C2 (as claimed): the in-memory table has one column slot per jira_fields
\* entry, in order, repeated names included.
C2_ColumnsEqualJiraFields ==
    Projected => result_df.columns = config.jira_fields

TestRailColumns == <<"ID", "Title", "Priority", "Section", "Preconditions">>

\* C3 (as claimed): under the default configuration the output columns are
\* Issue Type, Summary, Priority, Component, Description, Project Key, Labels.
C3_DefaultColumnsAsClaimed ==
    (Projected /\ config = DefaultConfig /\ df.columns = TestRailColumns) =>
        result_df.columns = <<"Issue Type", "Summary", "Priority", "Component",
                              "Description", "Project Key", "Labels">>

\* C3 (amended): under the default configuration the output columns are, in
\* this order, Summary, Issue Type, Priority, Component, Description,
\* Project Key, Labels.
C3_DefaultColumns ==
    (Projected /\ config = DefaultConfig /\ df.columns = TestRailColumns) =>
        result_df.columns = <<"Summary", "Issue Type", "Priority", "Component",
                              "Description", "Project Key", "Labels">>

C3_Witness ==
    /\ Projected
    /\ config = DefaultConfig
    /\ df.columns = TestRailColumns
    /\ df.index >= 2
    /\ pc = "returned"
    /\ result.success

\* the configuration names, for some mapped output field, a transformation
\* identifier outside the engine's vocabulary
NamesUnknownTransformation(cfg) ==
    \E f \in Keys(cfg.column_mappings) \cap Keys(cfg.transformations) :
        Get(cfg.transformations, f) \notin TransformationVocabulary

\* the projection reaches the lookup of an identifier that is no attribute of
\* the engine: the field is listed, not static, and its source column exists
LooksUpMissingAttribute(cfg, input) ==
    \E f \in Listed(cfg) \cap Keys(cfg.transformations) :
        /\ SourcePresent(cfg, input, f)
        /\ ~HasAttr(Get(cfg.transformations, f))

FailedWithoutOutput ==
    /\ ~result.success
    /\ result.error # "<none>"
    /\ writes = 0
    /\ outfile = "untouched"

\* C4 (as claimed): a call whose configuration names an unknown transformation
\* identifier for a mapped field fails and writes nothing, for every input table.
C4_UnknownTransformationAlwaysFails ==
    (pc = "returned" /\ InList("read", steps) /\ NamesUnknownTransformation(config))
        => FailedWithoutOutput

\* C4 (amended): the call fails and writes nothing whenever the projection
\* reaches the lookup of an identifier that is not an attribute of the engine
\* (the field is listed in jira_fields, is not a key of static_values, and its
\* source column is in the input table).
C4_UnresolvedTransformationFails ==
    (pc = "returned" /\ InList("read", steps) /\ LooksUpMissingAttribute(config, df))
        => FailedWithoutOutput

C4_Witness ==
    /\ pc = "returned"
    /\ LooksUpMissingAttribute(config, df)
    /\ df.index >= 1
    /\ raised = "AttributeError"
    /\ ~result.success

\* the input with column c added (one cell per record)
WithColumn(input, c) == PutColumn(input, c, Broadcast("Login", input.index))

IsEmptyCell(v) == v = "" \/ isna(v)

\* C5 (as claimed): a missing source column does not stop the projection; the
\* field is empty in every output record, a warning names the missing column,
\* and every other output field is projected as it is when the column exists.
C5_MissingSourceDegradesOneField ==
    Projected =>
        \A f \in Listed(config) :
            SourceMissing(config, df, f) =>
                LET source == Get(config.column_mappings, f)
                    otherwise == apply_transformations(config, WithColumn(df, source))
                IN  /\ HasColumn(result_df, f)
                    /\ \A r \in DOMAIN Column(result_df, f) :
                           IsEmptyCell(Column(result_df, f)[r])
                    /\ InList(Msg("Source column not found", source, 0, <<f>>),
                              heap[selfWarnings])
                    /\ otherwise.raised = "" =>
                          \A g \in Listed(config) \ {f} :
                              \/ /\ Has(config.column_mappings, g)
                                 /\ Get(config.column_mappings, g) = source
                              \/ /\ HasColumn(result_df, g)
                                 /\ Column(result_df, g) = Column(otherwise.frame, g)

\* C6: to_csv is called at most once per call, only in save mode and only
\* after read, input validation, projection and output validation completed;
\* a call that failed before the save step has written nothing, and a preview
\* call writes nothing.
C6_WriteOnlyAfterFullProjection ==
    /\ writes <= 1
    /\ writes = 1 =>
          /\ ~preview
          /\ SubSeq(steps, 1, 5) = <<"reset", "read", "validate_input",
                                     "apply_transformations", "validate_output">>
    /\ outfile # "untouched" => writes = 1
    /\ (pc = "returned" /\ ~result.success
          /\ raised \in {"read_csv failed", "ValueError: Input CSV file is empty",
                         "AttributeError", "TypeError"})
          => (writes = 0 /\ outfile = "untouched")
    /\ preview => (writes = 0 /\ outfile = "untouched")

C6_Witness ==
    /\ pc = "returned"
    /\ result.success
    /\ ~preview
    /\ writes = 1
    /\ outfile = "written"
    /\ df.index >= 1

-----------------------------------------------------------------------------
(* Properties of the batch command and of the validator *)

Successes(h) == Cardinality({ i \in DOMAIN h : h[i].result.success })

\* C7: a batch over N matched files calls transform exactly once per file,
\* whatever earlier files did; at the end successes + failures = N and the
\* exit code is 0 exactly when no file failed.
C7_BatchAttemptsEveryFile ==
    (batch.phase \in {"loop", "done"} /\ batch.files >= 1) =>
        /\ \A k \in 1..batch.files :
              batch.attempts[k] =
                 IF k < batch.i \/ (k = batch.i /\ pc # "idle") THEN 1 ELSE 0
        /\ batch.phase = "done" =>
              /\ batch.i = batch.files + 1
              /\ Len(history) = batch.files
              /\ batch.success_count = Successes(history)
              /\ batch.success_count + batch.error_count = batch.files
              /\ batch.exit = (IF batch.error_count = 0 THEN 0 ELSE 1)

C7_Witness ==
    /\ batch.phase = "done"
    /\ batch.files >= 2
    /\ ~history[1].result.success
    /\ history[1].result.error \in {"read_csv failed", "to_csv failed"}
    /\ history[2].result.success
    /\ batch.exit = 1

\* C8: a call of validate_input_data or validate_output_data leaves the frame
\* it was given (labels and every cell) and the configuration as they were.
C8_ValidatorLeavesFrameUnchanged ==
    [][(scenario = "validator" /\ pc = "loaded" /\ pc' # "loaded")
          => (vdf' = vdf /\ config' = config)]_vars

C8_Witness ==
    /\ scenario = "validator"
    /\ pc = "idle"
    /\ Len(history) >= 2
    /\ history[1].result.kind = "input"
    /\ history[2].result.kind = "output"
    /\ vdf.index >= 2
    /\ \E c \in DOMAIN vdf.data : \E r \in DOMAIN vdf.data[c] : isna(vdf.data[c][r])

\* the errors and warnings the running transform call has produced by itself
CallErrors ==
    IF InList("validate_output", steps)
    THEN validate_output(config, apply_transformations(config, df).frame)
    ELSE <<>>

CallWarnings ==
    (IF InList("read", steps) THEN validate_input(config, df).warnings ELSE <<>>)
    \o (IF InList("validate_input", steps)
        THEN apply_transformations(config, df).warnings ELSE <<>>)

\* what the entry point of the given kind produces on a frame by itself
EntryPoint(kind, cfg, f) ==
    IF kind = "input" THEN validate_input_data(cfg, f) ELSE validate_output_data(cfg, f)

\* C9: over any sequence of validator calls and of transform calls on one
\* object, the lists of each returned result hold exactly what that call
\* produced, and no later call changes the lists of an earlier result.
C9_ResultsArePerCall ==
    /\ \A i \in DOMAIN history :
          /\ heap[history[i].result.errors] = history[i].errors
          /\ heap[history[i].result.warnings] = history[i].warnings
    /\ (scenario = "validator" /\ pc = "idle" /\ history # <<>>) =>
          LET last == history[Len(history)]
          IN  /\ last.errors = EntryPoint(last.result.kind, config, vdf).errors
              /\ last.warnings = EntryPoint(last.result.kind, config, vdf).warnings
    /\ (scenario = "batch" /\ pc = "returned") =>
          LET last == history[Len(history)]
          IN  /\ last.errors = CallErrors
              /\ last.warnings = CallWarnings

C9_Witness ==
    /\ scenario = "batch"
    /\ pc = "returned"
    /\ Len(history) = 2
    /\ history[1].errors # <<>>
    /\ history[1].warnings # <<>>
    /\ history[2].errors = <<>>
    /\ history[2].result.success

\* C10: for each name in required_fields (a list without repetitions),
\* validate_output_data yields one "missing" error when the frame lacks the
\* field, one error carrying the number k of missing-or-empty cells when the
\* field is there with k >= 1 of them, and no error for the field otherwise.
C10_RequiredFieldEntries ==
    (scenario = "validator" /\ pc = "idle" /\ history # <<>>
        /\ history[Len(history)].result.kind = "output") =>
        \A i \in DOMAIN config.required_fields :
            LET f == config.required_fields[i]
                entries == SelectSeq(history[Len(history)].errors,
                              LAMBDA m : m.name = f /\ m.kind \in
                                 {"Required field missing", "Required field has empty values"})
                k == Cardinality({ r \in 1..vdf.index : IsEmptyCell(Column(vdf, f)[r]) })
            IN  IF ~HasColumn(vdf, f)
                THEN entries = << Msg("Required field missing", f, 0, <<>>) >>
                ELSE IF k >= 1
                THEN entries = << Msg("Required field has empty values", f, k, <<>>) >>
                ELSE entries = <<>>

C10_Witness ==
    /\ scenario = "validator"
    /\ pc = "idle"
    /\ history # <<>>
    /\ history[Len(history)].result.kind = "output"
    /\ config.required_fields = <<"Component", "Summary">>
    /\ vdf.index = 2
    /\ EmptyCount(Column(vdf, "Summary")) = 1
    /\ Len(history[Len(history)].errors) >= 2

-----------------------------------------------------------------------------
(* Properties of the validator's structure check *)

HasDuplicateLabels(f) == \E i \in DOMAIN f.columns : IsDuplicated(f, f.columns[i])

\* the validator was just called through its input entry point
InputCallMade == scenario = "validator" /\ steps = <<"input">> /\ pc \in {"idle", "raised"}

\* C11: validate_input_data on a non-empty table whose schema repeats a column
\* name returns a result with is_valid = FALSE whose errors hold an entry
\* listing the repeated names; the call returns and does not raise.
C11_DuplicateColumnsReturnResult ==
    (InputCallMade /\ HasDuplicateLabels(vdf) /\ ~IsEmptyFrame(vdf)) =>
        /\ pc = "idle"
        /\ raised = ""
        /\ history # <<>>
        /\ LET last == history[Len(history)]
           IN  /\ last.result.kind = "input"
               /\ ~last.result.is_valid
               /\ \E i \in DOMAIN last.errors :
                      /\ last.errors[i].kind = "Duplicate columns found"
                      /\ last.errors[i].names =
                            SelectSeq(vdf.columns, LAMBDA c : IsDuplicated(vdf, c))

-----------------------------------------------------------------------------
(* Properties of the transformation functions *)

CanonicalLevels == {"Low", "Medium", "High", "Highest"}

\* the keys of the priority table, each in the spellings the model calls it
\* with, and the level the key stands for
PriorityKeys ==
    { << {"1"}, "Low" >>, << {"2"}, "Medium" >>, << {"3"}, "High" >>, << {"4"}, "Highest" >>,
      << {"low", "Low", "LOW"}, "Low" >>,
      << {"medium", "Medium", "MEDIUM"}, "Medium" >>,
      << {"high", "High", "HIGH", "hIgH"}, "High" >>,
      << {"critical", "Critical", "CRITICAL"}, "Highest" >> }

\* C12: priority_mapping maps every string and the missing value to exactly one
\* of Low, Medium, High, Highest; a key of the table gives its level in any
\* letter case ("1".."4", low, medium, high, critical); every other input,
\* the missing value included, gives Medium.
C12_PriorityMappingTotal ==
    call.func = "priority_mapping" =>
        LET v == call.args[1]
        IN  /\ call.value \in CanonicalLevels
            /\ \A e \in PriorityKeys : v \in e[1] => call.value = e[2]
            /\ (v \notin UNION { e[1] : e \in PriorityKeys }) => call.value = "Medium"

C12_Witness ==
    /\ call.func = "priority_mapping"
    /\ call.args = <<"HIGH">>
    /\ call.value = "High"

\* the paths the model calls extract_component with, as lists of segments
SegmentLists ==
    { <<"UI", "Login">>, <<"UI", "Login", "Button">>, <<"Login", "UI">>, <<"UI", "UI">>,
      <<"", "UI">>, <<"UI", "">> }

RECURSIVE JoinPath(_)
\* " > ".join(segs)
JoinPath(segs) ==
    IF Len(segs) = 1 THEN segs[1] ELSE segs[1] \o " > " \o JoinPath(Tail(segs))

\* C13: extract_component returns the first segment of a path whose segments
\* are separated by " > ", the string itself when it holds no separator, and
\* the empty string for a missing value.
C13_ExtractComponentFirstSegment ==
    call.func = "extract_component" =>
        LET v == call.args[1]
        IN  /\ isna(v) => call.value = ""
            /\ \A segs \in SegmentLists : v = JoinPath(segs) => call.value = segs[1]
            /\ (~isna(v) /\ v \notin { JoinPath(segs) : segs \in SegmentLists })
                   => call.value = v

C13_Witness ==
    /\ call.func = "extract_component"
    /\ call.args = <<"UI > Login > Button">>
    /\ call.value = "UI"

\* the running call has reached the lookup of transformation name for some
\* listed field: the field is mapped, not static, and its source column exists
LooksUp(cfg, input, name) ==
    \E f \in Listed(cfg) :
        /\ SourcePresent(cfg, input, f)
        /\ Has(cfg.transformations, f)
        /\ Get(cfg.transformations, f) = name

\* C14: format_summary is available as a named transformation (with an
\* idempotent identifier normalisation): a call whose configuration names it
\* for a mapped field finds the function when it looks it up.
C14_FormatSummaryAvailable ==
    (pc = "returned" /\ InList("validate_input", steps)
       /\ LooksUp(config, df, "format_summary")) =>
        result.error # "AttributeError"

-----------------------------------------------------------------------------
(* Properties of the validation report *)

ReportMade == call.func = "generate_validation_report"

\* the messages of the bullets among lines lo..hi of report r, in order
BulletsIn(r, lo, hi) ==
    LET sel == SelectSeq(SubSeq(r, lo, hi), LAMBDA l : l.kind = "bullet")
    IN  [k \in DOMAIN sel |-> sel[k].msg]

\* r holds one timestamp, then one input section, then one output section;
\* the input section ends with a line of kind inputEnd and the output section
\* with the separator line; the bullets of each section are the errors and
\* then the warnings of its result, in list order, and no bullet stands
\* before the input section
ReportSections(r, input_validation, output_validation, inputEnd) ==
    \E t, i, o \in DOMAIN r :
        /\ t < i
        /\ i < o
        /\ r[t].kind = "timestamp"
        /\ r[i].kind = "input"
        /\ r[o].kind = "output"
        /\ \A k \in DOMAIN r : r[k].kind \in {"timestamp", "input", "output"} => k \in {t, i, o}
        /\ r[o - 1].kind = inputEnd
        /\ r[Len(r)].kind = "separator"
        /\ r[Len(r)].width = SeparatorWidth
        /\ BulletsIn(r, 1, i - 1) = <<>>
        /\ BulletsIn(r, i, o - 1) = input_validation.errors \o input_validation.warnings
        /\ BulletsIn(r, o, Len(r)) = output_validation.errors \o output_validation.warnings

\* C18 (as claimed): the report holds a timestamp, then the input section,
\* then the output section; each of the two sections ends with a fixed-width
\* separator line; every error and warning of a result is a bullet of its own
\* section, in list order.
C18_EachSectionEndsWithSeparator ==
    ReportMade => ReportSections(call.value, call.args[1], call.args[2], "separator")

\* C18 (amended): the report holds a timestamp, then the input section, then
\* the output section; the input section ends with an empty line, the output
\* section with an empty line and then the separator line of 50 characters;
\* every error and warning of a result is a bullet of its own section, in
\* list order.
C18_ReportSections ==
    ReportMade =>
        /\ ReportSections(call.value, call.args[1], call.args[2], "blank")
        /\ call.value[Len(call.value) - 1].kind = "blank"

C18_Witness ==
    /\ ReportMade
    /\ call.args[1].errors # <<>>
    /\ Len(call.args[1].warnings) = 2
    /\ call.args[1].warnings[1] # call.args[1].warnings[2]
    /\ Len(call.args[2].errors) = 2
    /\ call.args[2].errors[1] # call.args[2].errors[2]
    /\ call.args[2].warnings # <<>>
    /\ Len(call.value) > 12

-----------------------------------------------------------------------------
(* Properties of the command line *)

\* the configuration file the finished command had to load: --config for the
\* engine, --config or config/default_config.json for command_validate
LoadedFile == IF cli.command = "validate" THEN ValidateConfigFile(cli) ELSE cli.config_file

\* a command that builds an engine or a validator got as far as building it
ComponentBuilt ==
    /\ scenario = "cli"
    /\ cli.phase = "done"
    /\ cli.command \in {"transform", "preview", "validate"}
    /\ cli.input # NoFile

\* C15: whenever the configuration file is missing or cannot be parsed, the
\* component being built silently uses the built-in default configuration
\* and this is not an error, for the engine and for every command that
\* builds a validator from a configuration path (validate included).
C15_MissingConfigFallsBackToDefault ==
    (ComponentBuilt /\ LoadedFile.state \in {"missing", "unparseable"}) =>
        /\ config = DefaultConfig
        /\ cli.error # "JSONDecodeError"

\* a command has returned its exit code
CommandDone ==
    \/ scenario = "cli" /\ cli.phase = "done"
    \/ scenario = "batch" /\ batch.phase = "done"

ExitCode == IF scenario = "batch" THEN batch.exit ELSE cli.exit

\* the run had a failure: a missing input file or directory, no file to
\* process, an exception, or a transform call that returned success = False
RunFailed ==
    \/ scenario = "cli" /\ cli.command # "init-config" /\ cli.input = NoFile
    \/ scenario = "cli" /\ cli.error # ""
    \/ scenario = "batch" /\ batch.files = 0
    \/ \E i \in DOMAIN history : ~history[i].result.success

\* validation errors were recorded for the input table or for an output table
ValidationFailed ==
    \/ scenario = "cli" /\ cli.validation = "failed"
    \/ \E i \in DOMAIN history : history[i].errors # <<>>

\* C16: every command (transform, preview, validate, batch, init-config)
\* exits with code 1 whenever its run had a failure or validation errors were
\* recorded for the input or the output table, and with code 0 otherwise.
C16_ExitCodeTellsFailure ==
    CommandDone => (ExitCode = 1 <=> (RunFailed \/ ValidationFailed))

-----------------------------------------------------------------------------
(* Properties of the output table *)

\* the output table of the running call breaks a required-field check
RequiredFieldViolated == Projected /\ validate_output(config, result_df) # <<>>

\* C17: a validation failure never halts the pipeline by itself.  A transform
\* call whose output table breaks a required-field check goes on to the
\* preview or to the write; unless the write itself fails it returns
\* success = TRUE with the whole table previewed or persisted, and the
\* violation is the content of the result's errors list.
C17_ValidationFailureDoesNotHalt ==
    (RequiredFieldViolated /\ pc \notin {"validate_output"}) =>
        /\ InList("validate_output", steps)
        /\ pc = "except" => raised = "to_csv failed"
        /\ pc = "returned" =>
              IF raised = "to_csv failed"
              THEN ~result.success
              ELSE /\ result.success
                   /\ result.error = "<none>"
                   /\ result.transformed_rows = result_df.index
                   /\ IF preview THEN InList("show_preview", steps) /\ writes = 0
                                 ELSE outfile = "written" /\ writes = 1
                   /\ heap[result.errors] = validate_output(config, result_df)
                   /\ history[Len(history)].errors = validate_output(config, result_df)

C17_Witness ==
    /\ scenario = "transform"
    /\ pc = "returned"
    /\ RequiredFieldViolated
    /\ result.success
    /\ outfile = "written"
    /\ Len(heap[result.errors]) > 0

\* C19: after the projection no cell of the output table is missing: a
\* missing value of a copied source column, and a field filled before the
\* first copied column, is the empty string in the output table.
C19_NoMissingCellAfterProjection ==
    Projected =>
        \A c \in DOMAIN result_df.data : \A r \in DOMAIN result_df.data[c] :
            ~isna(result_df.data[c][r])

\* str(row["Section"]).replace(" ", "-").lower() on the sections of the model
SectionLabel(section) ==
    CASE section = "UI > Login" -> "ui->-login"
      [] section = "UI" -> "ui"
      [] section = "Login" -> "login"

\* generate_labels on record r of the input table, as its body reads a row
GenerateLabelsOfRecord(input, r) ==
    IF HasColumn(input, "Section") /\ ~isna(Column(input, "Section")[r])
    THEN "section-" \o SectionLabel(Column(input, "Section")[r]) \o ",manual-test"
    ELSE "manual-test"

\* C20: a named transformation that needs more than one source field (such
\* as generate_labels) is applied to the whole input record, not to the one
\* value of the mapped source column: the call does not fail on a cell, and
\* the field holds what the function gives for the record.
C20_MultiFieldTransformationGetsRecord ==
    /\ (pc = "returned" /\ InList("validate_input", steps)
          /\ LooksUp(config, df, "generate_labels")) => result.error # "TypeError"
    /\ Projected =>
          \A f \in Listed(config) :
              (SourcePresent(config, df, f) /\ Has(config.transformations, f)
                 /\ Get(config.transformations, f) = "generate_labels") =>
                  \A r \in 1..df.index :
                      Column(result_df, f)[r] = GenerateLabelsOfRecord(df, r)

\* C21: on every successful transform call the output table has one record
\* per input record: transformed_rows equals original_rows in the returned
\* stats, whatever the configuration.
C21_RowCountPreserved ==
    (pc = "returned" /\ result.success) =>
        /\ result_df.index = df.index
        /\ result.transformed_rows = result.original_rows

\* the input columns the projection reads under cfg: the sources of the
\* fields listed in jira_fields that no static value overrides
ConsultedColumns(cfg) ==
    { Get(cfg.column_mappings, f) :
        f \in { g \in Listed(cfg) :
                  ~Has(cfg.static_values, g) /\ Has(cfg.column_mappings, g) } }

\* the columns named by the missing-column warnings of the running call
WarnedMissingColumns ==
    UNION { { heap[selfWarnings][i].names[j] : j \in DOMAIN heap[selfWarnings][i].names } :
              i \in { k \in DOMAIN heap[selfWarnings] :
                        heap[selfWarnings][k].kind = "Missing expected columns" } }

\* C22: the missing-column warnings of _validate_input name only input
\* columns the projection consults: the source of a field overridden by a
\* static value, or of a field not listed in jira_fields, is never named, so
\* an input holding every consulted column gets no missing-column warning.
C22_WarningsNameConsultedColumnsOnly ==
    (scenario = "transform" /\ InList("validate_input", steps)) =>
        WarnedMissingColumns \subseteq ConsultedColumns(config)

\* C23: in every result returned by validate_input_data or
\* validate_output_data, is_valid is true exactly when the errors list of
\* that result is empty, whatever the warnings list holds; ready_for_import
\* of an output result equals is_valid; row_count and column_count of an
\* input result are the numbers of records and of columns of the table.
C23_FlagsFollowErrorsOnly ==
    scenario = "validator" =>
        /\ \A i \in DOMAIN history :
              /\ history[i].result.is_valid <=> (history[i].errors = <<>>)
              /\ history[i].result.is_valid <=> (heap[history[i].result.errors] = <<>>)
              /\ history[i].result.kind = "output" =>
                    (history[i].result.ready_for_import <=> history[i].result.is_valid)
        /\ (pc = "idle" /\ steps = <<"input">>) =>
              /\ \A c \in DOMAIN vdf.data :
                    Len(vdf.data[c]) = history[Len(history)].result.row_count
              /\ Cardinality(DOMAIN vdf.columns)
                    = history[Len(history)].result.column_count

\* C23 (witness): an input result that is valid although it carries
\* warnings, with its counts, followed by an output result that is not valid
\* and not ready for import.
C23_Witness ==
    /\ scenario = "validator"
    /\ Len(history) = 2
    /\ history[1].result.kind = "input"
    /\ history[1].result.is_valid
    /\ history[1].warnings # <<>>
    /\ history[1].result.row_count >= 1
    /\ history[1].result.column_count >= 2
    /\ history[2].result.kind = "output"
    /\ ~history[2].result.is_valid
    /\ ~history[2].result.ready_for_import
    /\ history[2].errors # <<>>

====
